---- MODULE Spec2Model ----
(***************************************************************************)
(* Model of emby/player.py: the Player class, which tracks one playback    *)
(* session of the host player and reports it to an Emby server.            *)
(*                                                                         *)
(* The Player object is the record variable `player` (one field per        *)
(* instance attribute).  Every public method runs its body under           *)
(* `with self._lock`; a thread is at `pc[t]`, and `loc[t]` holds the       *)
(* locals of the method it runs together with a record of what the method  *)
(* read from its collaborators and which calls it made.                    *)
(***************************************************************************)
EXTENDS Integers, Sequences, FiniteSets, TLC

\* ------------------------------------------------------------------ bounds
MaxTime == 3              \* the wall clock runs from 1 to MaxTime
MaxSessions == 2          \* session tokens GenerateSessionId can hand out
ProgressIntervalArg == 2  \* the progressInterval passed to Player(); 0 is None
MaxPosition == 3          \* playback positions run from 0 to MaxPosition

\* ------------------------------------------------------- program constants
DefaultProgressInterval == 10
TicksPerSecond == 10000000
Unset == -1               \* Python None in a numeric attribute

None == "None"            \* Python None in a reference attribute
NoEvent == "NoEvent"      \* event=None

PLAYING_PLAY_METHOD_DIRECT_STREAM == "DirectStream"
PLAYING_PLAY_METHOD_DIRECT_PLAY == "DirectPlay"
PLAYING_PROGRESS_EVENT_TIME_UPDATE == "TimeUpdate"
LOGWARNING == "LOGWARNING"
LOGINFO == "LOGINFO"
LOGDEBUG == "LOGDEBUG"

\* ------------------------------------------------------------ collaborators
Threads == {"ticker", "host", "main"}
ProviderIds == {"P1", "P2"}
HostFiles == {"F1"}
\* the items the host can be playing and the provider each was imported from
HostItems == {"itemP1", "itemNoProvider"}
HostTime == 1             \* what getTime() returns when it returns
HostTotalTime == 9        \* what getTotalTime() returns when it returns
VideoInfoTags == {"tagI1", "tagNoId"}
Settings == {"subsOn", "subsOff"}

HostEvents == {"onPlayBackStarted", "onAVStarted", "onPlayBackSeek",
               "onPlayBackSeekChapter", "onPlayBackPaused", "onPlayBackResumed",
               "onPlayBackStopped", "onPlayBackEnded", "onPlayBackError"}

\* the Player object, its lock, time.time(), the number of session tokens
\* handed out, the token and item of the StartPlayback call that returned
\* since the last _reset, and each thread's position and locals
VARIABLES player, lock, now, sessionIds, started, pc, loc

vars == <<player, lock, now, sessionIds, started, pc, loc>>

\* truthiness of a numeric attribute: None and 0 are false
IsSet(x) == x # Unset /\ x # 0

\* XBMC ListItem.getMediaProviderId()
getMediaProviderId(i) ==
    IF i = "itemP1" THEN "P1" ELSE ""

\* kodi.Api.getEmbyItemIdFromVideoInfoTag
getEmbyItemIdFromVideoInfoTag(tag) == IF tag = "tagI1" THEN "I1" ELSE None

\* kodi.Api.secondsToTicks: seconds to hundred-nanosecond ticks; no value
\* (None) stays no value
secondsToTicks(s) == IF s = Unset THEN Unset ELSE s * TicksPerSecond

\* the interval Player.__init__ stores
InitProgressInterval ==
    IF ProgressIntervalArg = 0 THEN DefaultProgressInterval ELSE ProgressIntervalArg

\* Player.__init__
InitPlayer ==
    [ progressInterval |-> InitProgressInterval,
      lastProgressReport |-> Unset,
      providers |-> {},
      file |-> None,
      item |-> None,
      itemId |-> None,
      mediaProvider |-> None,
      server |-> None,
      playSessionId |-> None,
      paused |-> FALSE,
      playMethod |-> None,
      lastPlaybackPosition |-> Unset ]

\* Player._reset, with the mistake of keeping the server connection
resetKeepsServer(p) ==
    [p EXCEPT !.file = None,
              !.item = None,
              !.itemId = None,
              !.mediaProvider = None,
              !.playSessionId = None,
              !.paused = FALSE,
              !.playMethod = None,
              !.lastPlaybackPosition = Unset]

\* Player._reset
reset(p) ==
    [p EXCEPT !.file = None,
              !.item = None,
              !.itemId = None,
              !.mediaProvider = None,
              !.server = None,
              !.playSessionId = None,
              !.paused = FALSE,
              !.playMethod = None,
              !.lastPlaybackPosition = Unset]

\* Player.log
LogEntry(msg, level) == [msg |-> msg, level |-> level]

\* what a method read from the host and its collaborators (nothing yet)
NothingRead ==
    [ isVideo |-> "", hostItem |-> "", tag |-> "", settings |-> "", direct |-> "",
      serverOk |-> "", auth |-> "" ]

YesNo(b) == IF b THEN "yes" ELSE "no"

\* _startPlayback, line 156, with the mistake of trusting the item's provider
AnyProvider(p, id) == TRUE

\* _startPlayback, line 156: the provider is in the registry
KnownProvider(p, id) == id \in p.providers

\* a validation step of _startPlayback failed: self._reset() and return
Abort(p, step, logs, seen) ==
    [player |-> reset(p), ok |-> FALSE, failed |-> step, logs |-> logs, seen |-> seen]

\* Player._startPlayback up to the connection to the server.  `in` is what
\* the host, the provider and the Server class answer when they are asked;
\* `seen` keeps the answers the method got to read.
Validate(p, in) ==
    LET s1 == [NothingRead EXCEPT !.isVideo = YesNo(in.isVideo)]
        s2 == [s1 EXCEPT !.hostItem = in.hostItem]
        s3 == [s2 EXCEPT !.tag = in.tag]
        s4 == [s3 EXCEPT !.settings = in.settings]
        s5 == [s4 EXCEPT !.direct = YesNo(in.direct), !.serverOk = YesNo(in.serverOk)]
        s6 == [s5 EXCEPT !.auth = YesNo(in.auth)]
        p1 == [p EXCEPT !.item = in.hostItem]
        mediaProviderId == getMediaProviderId(p1.item)
        p2 == [p1 EXCEPT !.mediaProvider = mediaProviderId]
        p3 == [p2 EXCEPT !.itemId = getEmbyItemIdFromVideoInfoTag(in.tag)]
        p4 == [p3 EXCEPT !.playMethod =
                  IF in.direct THEN PLAYING_PLAY_METHOD_DIRECT_STREAM
                  ELSE PLAYING_PLAY_METHOD_DIRECT_PLAY]
        \* Server(self._mediaProvider) raises ValueError: self._server keeps its value
        p5 == IF in.serverOk THEN [p4 EXCEPT !.server = p4.mediaProvider] ELSE p4
        setupLog == IF in.serverOk THEN <<>>
                    ELSE <<LogEntry("failed to setup connection", LOGINFO)>>
    IN  IF p.file = None THEN Abort(p, "file", <<>>, NothingRead)
        ELSE IF ~in.isVideo THEN Abort(p, "video", <<>>, s1)
        ELSE IF p1.item = None THEN Abort(p1, "item", <<>>, s2)
        ELSE IF mediaProviderId = "" THEN Abort(p1, "providerId", <<>>, s2)
        ELSE IF ~KnownProvider(p1, mediaProviderId)
          THEN Abort(p1, "unknownProvider",
                     <<LogEntry("unknown media provider", LOGWARNING)>>, s2)
        ELSE IF in.tag = None THEN Abort(p2, "videoInfoTag", <<>>, s3)
        ELSE IF p3.itemId = None THEN Abort(p3, "itemId", <<>>, s3)
        ELSE IF in.settings = None
          THEN Abort(p3, "settings",
                     <<LogEntry("failed to load settings", LOGWARNING)>>, s4)
        ELSE IF p5.server = None
          THEN Abort(p5, "connect",
                     setupLog \o <<LogEntry("cannot connect", LOGWARNING)>>, s5)
        ELSE IF ~in.auth
          THEN Abort(p5, "connect",
                     setupLog \o <<LogEntry("cannot connect", LOGWARNING)>>, s6)
        ELSE [player |-> p5, ok |-> TRUE, failed |-> "", logs |-> setupLog, seen |-> s6]

\* xbmc.Player.getTotalTime(): like getTime() it raises RuntimeError when the
\* host plays no file, so it answers when getTime() answered
getTotalTime(gotTime) == IF gotTime = Unset THEN Unset ELSE HostTotalTime

\* _preparePlayingData, line 251, with the mistake of guessing while paused
ShouldGuessWhilePaused(p) == IsSet(p.lastProgressReport)

\* _preparePlayingData, line 251: guess the position from the time passed
ShouldGuess(p) == ~p.paused /\ IsSet(p.lastProgressReport)

\* Player._preparePlayingData.  gotTime is what getTime() returned, Unset when
\* it raised RuntimeError; gotTotal likewise for getTotalTime().
preparePlayingData(p, time, gotTime, gotTotal, stopped, event, failed) ==
    LET guess == gotTime = Unset /\ ShouldGuess(p)
        \* None += float
        typeError == guess /\ p.lastPlaybackPosition = Unset
        p1 == IF gotTime # Unset THEN [p EXCEPT !.lastPlaybackPosition = gotTime]
              ELSE IF guess /\ ~typeError
                THEN [p EXCEPT !.lastPlaybackPosition = @ + (time - p.lastProgressReport)]
              ELSE p
        logs == IF guess THEN <<LogEntry("guessing the playback position", LOGDEBUG)>>
                ELSE <<>>
        base == [ ItemId |-> p1.itemId,
                  PlaySessionId |-> p1.playSessionId,
                  PlaylistIndex |-> 0,
                  PlaylistLength |-> 1,
                  PositionTicks |-> secondsToTicks(p1.lastPlaybackPosition),
                  Stopped |-> stopped,
                  Failed |-> IF stopped THEN YesNo(failed) ELSE "",
                  PlayMethod |-> IF stopped THEN "" ELSE p1.playMethod,
                  IsPaused |-> IF stopped THEN "" ELSE YesNo(p1.paused),
                  RunTimeTicks |-> IF stopped THEN Unset ELSE secondsToTicks(gotTotal),
                  EventName |-> IF stopped \/ event = NoEvent THEN "" ELSE event ]
    IN  IF typeError
          THEN [player |-> p1, data |-> <<>>, raised |-> "TypeError", logs |-> logs]
          ELSE [player |-> p1, data |-> <<base>>, raised |-> "", logs |-> logs]

\* the positions the model follows: the guess of line 254 stays in range
InRange(p) == p.lastPlaybackPosition <= MaxPosition

\* a call of the report client or the catalog client, as the method made it
Call(op, server, data) == [op |-> op, server |-> server, data |-> data]

\* what a method found when it entered
Entry(p) == [file |-> p.file, item |-> p.item, itemId |-> p.itemId,
             providers |-> p.providers,
             lastProgressReport |-> p.lastProgressReport,
             lastPlaybackPosition |-> p.lastPlaybackPosition]

\* no StartPlayback call has returned since the last _reset
NoStart == [PlaySessionId |-> None, ItemId |-> None]

\* a thread that runs no method has no locals
Outside == [handler |-> ""]

\* the locals of a method that has not started
NoLocals ==
    [ handler |-> "", arg |-> "", raised |-> "", calls |-> <<>>, logs |-> <<>>,
      data |-> <<>>, entry |-> Entry(InitPlayer), afterReset |-> FALSE,
      isPlaying |-> "", gotTime |-> Unset, tickNow |-> Unset,
      subtitles |-> "", gotFile |-> "", seen |-> NothingRead ]

Init ==
    /\ player = InitPlayer
    /\ lock = None
    /\ now = 1
    /\ sessionIds = 0
    /\ started = NoStart
    /\ pc = [t \in Threads |-> "idle"]
    /\ loc = [t \in Threads |-> Outside]

\* the steps that read time.time() (lines 69, 215, 229, 254)
ReadsClock == {"process", "start_build", "start_stamp", "report_build",
               "report_stamp", "stop_build"}

\* time.time() moves on.  The clock is seen only by the steps that read it,
\* so a tick is taken between two methods or right before such a step.
Tick ==
    /\ now < MaxTime
    /\ \A t \in Threads : pc[t] \in {"idle"} \cup ReadsClock
    /\ now' = now + 1
    /\ UNCHANGED <<player, lock, sessionIds, started, pc, loc>>

\* the first statement of each method's `with self._lock:` block
FirstStep(h) ==
    CASE h = "AddProvider" -> "add"
      [] h = "RemoveProvider" -> "remove"
      [] h = "Process" -> "process"
      [] h = "onPlayBackStarted" -> "started"
      [] h = "onAVStarted" -> "start_validate"
      [] h \in {"onPlayBackSeek", "onPlayBackSeekChapter",
                "onPlayBackPaused", "onPlayBackResumed"} -> "report_build"
      [] OTHER -> "stop_build"

\* the methods each thread calls: the periodic ticker, the host's callback
\* thread, and the thread that adds and removes media providers
Methods(t) ==
    CASE t = "ticker" -> {"Process"}
      [] t = "host" -> HostEvents
      [] OTHER -> {"AddProvider", "RemoveProvider"}

Args(h) == IF h \in {"AddProvider", "RemoveProvider"} THEN ProviderIds ELSE {""}

\* a lock that lets every thread in
LockAlwaysFree == TRUE

\* threading.Lock: `with self._lock:` enters when no thread holds the lock
LockFree == lock = None

\* a thread calls a method and enters its `with self._lock:` block
Begin(t) ==
    /\ pc[t] = "idle"
    /\ LockFree
    /\ \E h \in Methods(t) : \E a \in Args(h) :
         /\ h = "onAVStarted" => sessionIds < MaxSessions
         /\ pc' = [pc EXCEPT ![t] = FirstStep(h)]
         /\ loc' = [loc EXCEPT ![t] = [NoLocals EXCEPT !.handler = h, !.arg = a,
                                                       !.entry = Entry(player)]]
    /\ lock' = t
    /\ UNCHANGED <<player, now, sessionIds, started>>

\* AddProvider(None), RemoveProvider(None), lines 46-47 and 55-56: ValueError
\* before the lock is taken; the caller is back where it was and nothing changed
InvalidProvider(t) ==
    /\ pc[t] = "idle"
    /\ Methods(t) \cap {"AddProvider", "RemoveProvider"} # {}
    /\ UNCHANGED vars

\* a `with` block that lets go of the lock only when the block returns
ReleasedOnReturn(t) == IF lock = t /\ loc[t].raised = "" THEN None ELSE lock

\* threading.Lock.__exit__: the lock is free again, however the block ended
Released(t) == IF lock = t THEN None ELSE lock

\* the end of the `with` block, by return or by an exception unwinding
Exit(t) ==
    /\ pc[t] = "exit"
    /\ pc' = [pc EXCEPT ![t] = "idle"]
    /\ loc' = [loc EXCEPT ![t] = Outside]
    /\ lock' = Released(t)
    /\ UNCHANGED <<player, now, sessionIds, started>>

\* AddProvider, lines 50-52
AddProvider(t) ==
    /\ pc[t] = "add"
    /\ LET id == loc[t].arg
       IN  /\ player' = [player EXCEPT !.providers = @ \cup {id}]
           /\ loc' = [loc EXCEPT ![t].logs =
                        IF id \notin player.providers
                          THEN Append(@, LogEntry("added", LOGINFO)) ELSE @]
    /\ pc' = [pc EXCEPT ![t] = "exit"]
    /\ UNCHANGED <<lock, now, sessionIds, started>>

\* RemoveProvider, lines 59-61: del raises KeyError for a key that is absent
RemoveProvider(t) ==
    /\ pc[t] = "remove"
    /\ LET id == loc[t].arg
       IN  IF id \in player.providers
             THEN /\ player' = [player EXCEPT !.providers = @ \ {id}]
                  /\ loc' = [loc EXCEPT ![t].logs = Append(@, LogEntry("removed", LOGINFO))]
             ELSE /\ player' = player
                  /\ loc' = [loc EXCEPT ![t].raised = "KeyError"]
    /\ pc' = [pc EXCEPT ![t] = "exit"]
    /\ UNCHANGED <<lock, now, sessionIds, started>>

\* Process, with the mistake of leaving out the interval check of line 69
ProcessEveryTick(t) ==
    /\ pc[t] = "process"
    /\ loc' = [loc EXCEPT ![t].tickNow = now]
    /\ pc' = [pc EXCEPT ![t] =
                IF ~IsSet(player.lastProgressReport) THEN "exit" ELSE "report_build"]
    /\ UNCHANGED <<player, lock, now, sessionIds, started>>

\* Process, lines 65-70: the interval check before _reportPlaybackProgress
Process(t) ==
    /\ pc[t] = "process"
    /\ loc' = [loc EXCEPT ![t].tickNow = now]
    /\ pc' = [pc EXCEPT ![t] =
                IF ~IsSet(player.lastProgressReport) THEN "exit"
                ELSE IF (now - player.lastProgressReport) < player.progressInterval
                  THEN "exit"
                ELSE "report_build"]
    /\ UNCHANGED <<player, lock, now, sessionIds, started>>

\* onPlayBackStarted without the reset of line 76
PlayBackStartedKeepsSession(t) ==
    /\ pc[t] = "started"
    /\ loc' = [loc EXCEPT ![t].afterReset = TRUE]
    /\ pc' = [pc EXCEPT ![t] = "started_file"]
    /\ UNCHANGED <<player, lock, now, sessionIds, started>>

\* onPlayBackStarted, line 76
PlayBackStarted(t) ==
    /\ pc[t] = "started"
    /\ player' = reset(player)
    /\ started' = NoStart
    /\ loc' = [loc EXCEPT ![t].afterReset = TRUE]
    /\ pc' = [pc EXCEPT ![t] = "started_file"]
    /\ UNCHANGED <<lock, now, sessionIds>>

\* onPlayBackStarted, lines 77-80: getPlayingFile() or RuntimeError
CaptureFile(t) ==
    /\ pc[t] = "started_file"
    /\ \E f \in HostFiles \cup {None} :
         /\ player' = IF f = None THEN player ELSE [player EXCEPT !.file = f]
         /\ loc' = [loc EXCEPT ![t].afterReset = FALSE, ![t].gotFile = f]
    /\ pc' = [pc EXCEPT ![t] = "exit"]
    /\ UNCHANGED <<lock, now, sessionIds, started>>

\* _startPlayback, lines 137-199
StartValidate(t) ==
    /\ pc[t] = "start_validate"
    /\ \E isVideo \in BOOLEAN, hostItem \in HostItems \cup {None},
          tag \in VideoInfoTags \cup {None}, settings \in Settings \cup {None},
          direct \in BOOLEAN, serverOk \in BOOLEAN, auth \in BOOLEAN :
         LET r == Validate(player, [isVideo |-> isVideo, hostItem |-> hostItem,
                                    tag |-> tag, settings |-> settings, direct |-> direct,
                                    serverOk |-> serverOk, auth |-> auth])
             subs == /\ r.player.playMethod = PLAYING_PLAY_METHOD_DIRECT_STREAM
                     /\ settings = "subsOn"
         IN  /\ player' = r.player
             /\ started' = IF r.ok THEN started ELSE NoStart
             /\ loc' = [loc EXCEPT ![t].logs = @ \o r.logs,
                                   ![t].seen = r.seen,
                                   ![t].afterReset = ~r.ok]
             /\ pc' = [pc EXCEPT ![t] =
                         IF ~r.ok THEN "exit"
                         ELSE IF subs THEN "start_subs" ELSE "start_build"]
    /\ UNCHANGED <<lock, now, sessionIds>>

\* the answers of _addExternalSubtitles: no item details (line 296), no media
\* source (line 303), a subtitle whose URL cannot be built (line 338), a
\* subtitle added (line 344), or an exception of Library.GetItem
SubtitleAnswers == {"none", "nosources", "nourl", "subtitles", "raise"}

\* _addExternalSubtitles, lines 290-347: Library.GetItem answers, or raises
AddExternalSubtitles(t) ==
    /\ pc[t] = "start_subs"
    /\ \E answer \in SubtitleAnswers :
         /\ loc' = [loc EXCEPT
                ![t].calls = Append(@, Call("GetItem", player.server, <<>>)),
                ![t].subtitles = answer,
                ![t].raised = IF answer = "raise" THEN "Error" ELSE @,
                ![t].logs = CASE answer = "none" ->
                                   Append(@, LogEntry("cannot retrieve details", LOGWARNING))
                              [] answer = "nosources" ->
                                   Append(@, LogEntry("no media source", LOGDEBUG))
                              [] answer = "nourl" ->
                                   Append(@, LogEntry("cannot add external subtitle", LOGWARNING))
                              [] answer = "subtitles" ->
                                   Append(@, LogEntry("external subtitle added", LOGINFO))
                              [] OTHER -> @]
         /\ pc' = [pc EXCEPT ![t] = IF answer = "raise" THEN "exit" ELSE "start_build"]
    /\ UNCHANGED <<player, lock, now, sessionIds, started>>

\* PlaybackCheckin.GenerateSessionId: a token never handed out before
GenerateSessionId(n) == IF n = 0 THEN "S1" ELSE IF n = 1 THEN "S2" ELSE "S3"

\* _startPlayback, lines 207-210: the session token and the start payload
StartBuild(t) ==
    /\ pc[t] = "start_build"
    /\ \E gotTime \in {HostTime, Unset} :
         LET p1 == [player EXCEPT !.playSessionId = GenerateSessionId(sessionIds)]
             r == preparePlayingData(p1, now, gotTime, getTotalTime(gotTime), FALSE,
                                     NoEvent, FALSE)
         IN  /\ InRange(r.player)
             /\ player' = r.player
             /\ loc' = [loc EXCEPT
                    ![t].calls = Append(@, Call("GenerateSessionId", None, <<>>)),
                    ![t].gotTime = gotTime,
                    ![t].data = r.data,
                    ![t].logs = @ \o r.logs,
                    ![t].raised = r.raised]
             /\ pc' = [pc EXCEPT ![t] = IF r.raised # "" THEN "exit" ELSE "start_call"]
    /\ sessionIds' = sessionIds + 1
    /\ UNCHANGED <<lock, now, started>>

\* a call of the report client that is sent a second time when it returned
ReportCallTwice(t, at, op, next) ==
    /\ pc[t] = at
    /\ \E raises \in BOOLEAN :
         /\ loc' = [loc EXCEPT
                ![t].calls = IF raises
                               THEN Append(@, Call(op, player.server, loc[t].data))
                               ELSE @ \o << Call(op, player.server, loc[t].data),
                                            Call(op, player.server, loc[t].data) >>,
                ![t].data = <<>>,
                ![t].raised = IF raises THEN "Error" ELSE @]
         /\ pc' = [pc EXCEPT ![t] = IF raises THEN "exit" ELSE next]
         /\ started' = IF op = "StartPlayback" /\ ~raises
                         THEN [PlaySessionId |-> loc[t].data[1].PlaySessionId,
                               ItemId |-> loc[t].data[1].ItemId]
                         ELSE started
    /\ UNCHANGED <<player, lock, now, sessionIds>>

\* a call of the report client: it returns, or it raises
ReportCall(t, at, op, next) ==
    /\ pc[t] = at
    /\ \E raises \in BOOLEAN :
         /\ loc' = [loc EXCEPT
                ![t].calls = Append(@, Call(op, player.server, loc[t].data)),
                ![t].data = <<>>,
                ![t].raised = IF raises THEN "Error" ELSE @]
         /\ pc' = [pc EXCEPT ![t] = IF raises THEN "exit" ELSE next]
         /\ started' = IF op = "StartPlayback" /\ ~raises
                         THEN [PlaySessionId |-> loc[t].data[1].PlaySessionId,
                               ItemId |-> loc[t].data[1].ItemId]
                         ELSE started
    /\ UNCHANGED <<player, lock, now, sessionIds>>

\* _startPlayback, line 213
StartCall(t) == ReportCall(t, "start_call", "StartPlayback", "start_stamp")

\* _startPlayback, lines 215-218
StartStamp(t) ==
    /\ pc[t] = "start_stamp"
    /\ player' = [player EXCEPT !.lastProgressReport = now]
    /\ loc' = [loc EXCEPT ![t].logs = Append(@, LogEntry("playback start reported", LOGINFO))]
    /\ pc' = [pc EXCEPT ![t] = "exit"]
    /\ UNCHANGED <<lock, now, sessionIds, started>>

\* lines 100 and 107 with the two flags swapped
SetPausedSwapped(h, p) ==
    CASE h = "onPlayBackPaused" -> [p EXCEPT !.paused = FALSE]
      [] h = "onPlayBackResumed" -> [p EXCEPT !.paused = TRUE]
      [] OTHER -> p

\* the paused flag a handler sets before it reports (lines 100, 107)
SetPaused(h, p) ==
    CASE h = "onPlayBackPaused" -> [p EXCEPT !.paused = TRUE]
      [] h = "onPlayBackResumed" -> [p EXCEPT !.paused = FALSE]
      [] OTHER -> p

\* lines 221-222 with the reset left out
KeepWhenNotPlaying(p, isPlaying) == p

\* _reportPlaybackProgress, lines 221-222: the host has stopped playing
StopDetected(p, isPlaying) == IF ~isPlaying THEN reset(p) ELSE p

\* _reportPlaybackProgress, lines 221-226, after the handler's own statement
ReportBuild(t) ==
    /\ pc[t] = "report_build"
    /\ \E isPlaying \in BOOLEAN, gotTime \in {HostTime, Unset} :
         LET p0 == SetPaused(loc[t].handler, player)
             p1 == StopDetected(p0, isPlaying)
             r == preparePlayingData(p1, now, gotTime, getTotalTime(gotTime), FALSE,
                                     PLAYING_PROGRESS_EVENT_TIME_UPDATE, FALSE)
         IN  /\ started' = IF isPlaying THEN started ELSE NoStart
             /\ IF p1.item = None
                  THEN /\ player' = p1
                       /\ loc' = [loc EXCEPT ![t].isPlaying = YesNo(isPlaying),
                                             ![t].afterReset = ~isPlaying]
                       /\ pc' = [pc EXCEPT ![t] = "exit"]
                  ELSE /\ InRange(r.player)
                       /\ player' = r.player
                       /\ loc' = [loc EXCEPT ![t].isPlaying = YesNo(isPlaying),
                                             ![t].gotTime = gotTime,
                                             ![t].data = r.data,
                                             ![t].logs = @ \o r.logs,
                                             ![t].raised = r.raised]
                       /\ pc' = [pc EXCEPT ![t] =
                                   IF r.raised # "" THEN "exit" ELSE "report_call"]
    /\ UNCHANGED <<lock, now, sessionIds>>

\* _reportPlaybackProgress, line 227
ReportProgressCall(t) ==
    ReportCall(t, "report_call", "PlaybackProgress", "report_stamp")

\* _reportPlaybackProgress, lines 229-231, and the handler's log of the report
ReportStamp(t) ==
    /\ pc[t] = "report_stamp"
    /\ player' = [player EXCEPT !.lastProgressReport = now]
    /\ loc' = [loc EXCEPT ![t].logs =
                 IF loc[t].handler = "Process" THEN @
                 ELSE Append(@, LogEntry("playback progress reported", LOGINFO))]
    /\ pc' = [pc EXCEPT ![t] = "exit"]
    /\ UNCHANGED <<lock, now, sessionIds, started>>

\* _stopPlayback, lines 234-237
StopBuild(t) ==
    /\ pc[t] = "stop_build"
    /\ IF player.item = None
         THEN /\ pc' = [pc EXCEPT ![t] = "exit"]
              /\ UNCHANGED <<player, loc>>
         ELSE \E gotTime \in {HostTime, Unset} :
                LET r == preparePlayingData(player, now, gotTime, Unset, TRUE, NoEvent,
                                            loc[t].handler = "onPlayBackError")
                IN  /\ InRange(r.player)
                    /\ player' = r.player
                    /\ loc' = [loc EXCEPT ![t].gotTime = gotTime,
                                          ![t].data = r.data,
                                          ![t].logs = @ \o r.logs,
                                          ![t].raised = r.raised]
                    /\ pc' = [pc EXCEPT ![t] =
                                IF r.raised # "" THEN "exit" ELSE "stop_call"]
    /\ UNCHANGED <<lock, now, sessionIds, started>>

\* _stopPlayback, line 238
StopCall(t) == ReportCall(t, "stop_call", "StopPlayback", "stop_reset")

\* _stopPlayback with the time of the stop report stored as well
StopResetStamps(t) ==
    /\ pc[t] = "stop_reset"
    /\ player' = [reset(player) EXCEPT !.lastProgressReport = now]
    /\ started' = NoStart
    /\ loc' = [loc EXCEPT ![t].logs = Append(@, LogEntry("playback stopped reported", LOGINFO)),
                          ![t].afterReset = TRUE]
    /\ pc' = [pc EXCEPT ![t] = "exit"]
    /\ UNCHANGED <<lock, now, sessionIds>>

\* _stopPlayback, lines 240-243
StopReset(t) ==
    /\ pc[t] = "stop_reset"
    /\ player' = reset(player)
    /\ started' = NoStart
    /\ loc' = [loc EXCEPT ![t].logs = Append(@, LogEntry("playback stopped reported", LOGINFO)),
                          ![t].afterReset = TRUE]
    /\ pc' = [pc EXCEPT ![t] = "exit"]
    /\ UNCHANGED <<lock, now, sessionIds>>

Next ==
    \/ Tick
    \/ \E t \in Threads :
         \/ Begin(t)
         \/ InvalidProvider(t)
         \/ Exit(t)
         \/ AddProvider(t)
         \/ RemoveProvider(t)
         \/ Process(t)
         \/ PlayBackStarted(t)
         \/ CaptureFile(t)
         \/ StartValidate(t)
         \/ AddExternalSubtitles(t)
         \/ StartBuild(t)
         \/ StartCall(t)
         \/ StartStamp(t)
         \/ ReportBuild(t)
         \/ ReportProgressCall(t)
         \/ ReportStamp(t)
         \/ StopBuild(t)
         \/ StopCall(t)
         \/ StopReset(t)

Spec == Init /\ [][Next]_vars

\* the steps of a thread inside Process() or an event handler, up to the end
\* of its `with` block
Run(t) ==
    \/ Exit(t)
    \/ Process(t)
    \/ PlayBackStarted(t)
    \/ CaptureFile(t)
    \/ StartValidate(t)
    \/ AddExternalSubtitles(t)
    \/ StartBuild(t)
    \/ StartCall(t)
    \/ StartStamp(t)
    \/ ReportBuild(t)
    \/ ReportProgressCall(t)
    \/ ReportStamp(t)
    \/ StopBuild(t)
    \/ StopCall(t)
    \/ StopReset(t)

\* the threads of a playback: the ticker and the host's callback thread
PlaybackThreads == {"ticker", "host"}

\* the Player once the add-on has registered its media provider
InitRegistered ==
    /\ player = [InitPlayer EXCEPT !.providers = {"P1"}]
    /\ lock = None
    /\ now = 1
    /\ sessionIds = 0
    /\ started = NoStart
    /\ pc = [t \in Threads |-> "idle"]
    /\ loc = [t \in Threads |-> Outside]

\* a playback: the registry stays as it is
NextPlayback ==
    \/ Tick
    \/ \E t \in PlaybackThreads :
         \/ Begin(t)
         \/ Run(t)

\* the thread that is inside a method keeps running: the calls it makes
\* return or raise, and the interpreter schedules a thread that can run
FairSpec ==
    /\ InitRegistered
    /\ [][NextPlayback]_vars
    /\ WF_vars(\E t \in PlaybackThreads : Run(t))

\* the host keeps playing: isPlaying() answers true
ReportBuildPlaying(t) == ReportBuild(t) /\ loc'[t].isPlaying = "yes"

\* the report client does not fail: its calls return
StartCallReturns(t) == StartCall(t) /\ loc'[t].raised = ""

\* PlaybackProgress returns
ReportProgressCallReturns(t) == ReportProgressCall(t) /\ loc'[t].raised = ""

\* StopPlayback returns
StopCallReturns(t) == StopCall(t) /\ loc'[t].raised = ""

\* the steps of a thread inside a method while the host keeps playing and the
\* report client does not fail
RunPlaying(t) ==
    \/ Exit(t)
    \/ Process(t)
    \/ PlayBackStarted(t)
    \/ CaptureFile(t)
    \/ StartValidate(t)
    \/ AddExternalSubtitles(t)
    \/ StartBuild(t)
    \/ StartCallReturns(t)
    \/ StartStamp(t)
    \/ ReportBuildPlaying(t)
    \/ ReportProgressCallReturns(t)
    \/ ReportStamp(t)
    \/ StopBuild(t)
    \/ StopCallReturns(t)
    \/ StopReset(t)

\* a playback while the host plays and the report client answers
NextPlaying ==
    \/ Tick
    \/ \E t \in PlaybackThreads :
         \/ Begin(t)
         \/ RunPlaying(t)

\* a playback in which the clock keeps advancing, the ticker keeps calling
\* Process() and gets the lock again and again, and the thread inside a
\* method keeps running
PlayingSpec ==
    /\ InitRegistered
    /\ [][NextPlaying]_vars
    /\ SF_vars(Tick)
    /\ SF_vars(Begin("ticker"))
    /\ WF_vars(\E t \in PlaybackThreads : RunPlaying(t))

\* ------------------------------------------------------------------ claims
StopEvents == {"onPlayBackStopped", "onPlayBackEnded", "onPlayBackError"}
ForcedEvents == {"onPlayBackSeek", "onPlayBackSeekChapter",
                 "onPlayBackPaused", "onPlayBackResumed"}
ReportOps == {"StartPlayback", "PlaybackProgress", "StopPlayback"}

\* the calls of the given operations a method has made so far
CallsOf(t, ops) == SelectSeq(loc[t].calls, LAMBDA c : c.op \in ops)

\* the log lines of a level a method has written so far
LogsAt(t, level) == SelectSeq(loc[t].logs, LAMBDA l : l.level = level)

\* the method a thread runs has reached the end of its `with` block
AtExit(t, handlers) == pc[t] = "exit" /\ loc[t].handler \in handlers

\* a session was active when the method entered
ActiveAtEntry(t) == loc[t].entry.item # None /\ loc[t].entry.itemId # None

\* every session field has its default value
SessionCleared ==
    /\ player.file = None
    /\ player.item = None
    /\ player.itemId = None
    /\ player.mediaProvider = None
    /\ player.server = None
    /\ player.playSessionId = None
    /\ player.paused = FALSE
    /\ player.playMethod = None
    /\ player.lastPlaybackPosition = Unset

\* C1: right after _reset has run, every session field has its default value,
\* and lastProgressReportTime is unset as well.
C1_ResetClearsEverySessionField ==
    \A t \in Threads :
        pc[t] # "idle" /\ loc[t].afterReset => SessionCleared /\ player.lastProgressReport = Unset

\* C2: a stop, ended or error event that finds a session active makes exactly
\* one StopPlayback call, with the session's item in the payload (so before
\* the reset) and Failed set exactly for the error event; one that finds no
\* session active makes no call at all.
C2_StopEventSendsExactlyOneStop ==
    \A t \in Threads :
        AtExit(t, StopEvents) =>
            IF ActiveAtEntry(t)
              THEN /\ Len(loc[t].calls) = 1
                   /\ loc[t].calls[1].op = "StopPlayback"
                   /\ loc[t].calls[1].data[1].ItemId = loc[t].entry.itemId
                   /\ loc[t].calls[1].data[1].Failed =
                          YesNo(loc[t].handler = "onPlayBackError")
              ELSE loc[t].calls = <<>>

\* C3: a Process() call made less than progressInterval seconds after the
\* last report returns without a PlaybackProgress call (without any call).
C3_NoProgressInsideInterval ==
    \A t \in Threads :
        /\ loc[t].handler = "Process"
        /\ pc[t] # "process"
        /\ IsSet(loc[t].entry.lastProgressReport)
        /\ loc[t].tickNow - loc[t].entry.lastProgressReport < player.progressInterval
        => pc[t] = "exit" /\ loc[t].calls = <<>>

C3_Witness ==
    /\ AtExit("ticker", {"Process"})
    /\ ActiveAtEntry("ticker")
    /\ loc["ticker"].tickNow = loc["ticker"].entry.lastProgressReport + 1
    /\ loc["ticker"].calls = <<>>

\* the calls of a forced event are one PlaybackProgress, with the paused flag
\* of the event
OneProgressCall(t) ==
    /\ Len(loc[t].calls) = 1
    /\ loc[t].calls[1].op = "PlaybackProgress"
    /\ loc[t].handler = "onPlayBackPaused" => loc[t].calls[1].data[1].IsPaused = "yes"
    /\ loc[t].handler = "onPlayBackResumed" => loc[t].calls[1].data[1].IsPaused = "no"

UnknownProviderSeen(t) ==
    /\ loc[t].seen.hostItem \notin {"", None}
    /\ getMediaProviderId(loc[t].seen.hostItem) # ""
    /\ getMediaProviderId(loc[t].seen.hostItem) \notin player.providers

\* C5: onAVStarted for an item whose provider is not in the registry makes no
\* call of the report client or the catalog, connects to no server, logs one
\* warning and leaves item, itemId, provider and server unset.
C5_UnknownProviderStartsNothing ==
    \A t \in Threads :
        /\ loc[t].handler = "onAVStarted"
        /\ pc[t] # "start_validate"
        /\ UnknownProviderSeen(t)
        => /\ pc[t] = "exit"
           /\ loc[t].calls = <<>>
           /\ loc[t].seen.serverOk = ""
           /\ Len(LogsAt(t, LOGWARNING)) = 1
           /\ player.item = None
           /\ player.itemId = None
           /\ player.mediaProvider = None
           /\ player.server = None

C5_Witness ==
    /\ AtExit("host", {"onAVStarted"})
    /\ UnknownProviderSeen("host")
    /\ "P2" \in player.providers

\* one of the checks of the start validation failed, by what the method read
CheckFailed(t) ==
    \/ loc[t].entry.file = None
    \/ loc[t].seen.isVideo = "no"
    \/ loc[t].seen.hostItem = None
    \/ /\ loc[t].seen.hostItem \notin {"", None}
       /\ \/ getMediaProviderId(loc[t].seen.hostItem) = ""
          \/ getMediaProviderId(loc[t].seen.hostItem) \notin player.providers
    \/ loc[t].seen.tag = None
    \/ /\ loc[t].seen.tag \notin {"", None}
       /\ getEmbyItemIdFromVideoInfoTag(loc[t].seen.tag) = None
    \/ loc[t].seen.settings = None
    \/ loc[t].seen.serverOk = "no"
    \/ loc[t].seen.auth = "no"

\* C6: when a check of the start validation fails, the session is reset, no
\* session token is generated, no StartPlayback call is made, the time of the
\* last report stays as it was and the controller is idle at the return.
C6_FailedValidationStartsNothing ==
    \A t \in Threads :
        /\ loc[t].handler = "onAVStarted"
        /\ pc[t] # "start_validate"
        /\ CheckFailed(t)
        => /\ pc[t] = "exit"
           /\ SessionCleared
           /\ CallsOf(t, {"GenerateSessionId", "StartPlayback"}) = <<>>
           /\ player.lastProgressReport = loc[t].entry.lastProgressReport

\* C7: RemoveProvider of an identifier that is not registered logs nothing,
\* raises nothing and leaves the registry as it was; of one that is
\* registered, it removes that entry and no other.
C7_RemoveProviderOfAbsentIsNoOp ==
    \A t \in Threads :
        AtExit(t, {"RemoveProvider"}) =>
            IF loc[t].arg \in loc[t].entry.providers
              THEN player.providers = loc[t].entry.providers \ {loc[t].arg}
              ELSE /\ loc[t].raised = ""
                   /\ loc[t].logs = <<>>
                   /\ player.providers = loc[t].entry.providers

\* C8: the public methods exclude each other: a thread inside a method holds
\* the lock and every other thread is outside all of them, so the steps of
\* one method never interleave with the steps of another.
C8_MutualExclusion ==
    \A t \in Threads :
        pc[t] # "idle" => lock = t /\ \A u \in Threads \ {t} : pc[u] = "idle"

\* a stop event is between its StopPlayback call and its reset while a
\* progress report is due: the ticker has to wait
C8_Witness ==
    /\ pc["host"] = "stop_reset"
    /\ pc["ticker"] = "idle"
    /\ IsSet(player.lastProgressReport)
    /\ now - player.lastProgressReport >= player.progressInterval

\* a step that builds a payload
Builds(t) ==
    /\ pc[t] \in {"start_build", "report_build", "stop_build"}
    /\ pc'[t] \in {"start_call", "report_call", "stop_call"}

\* C9: when the host cannot supply the position, a payload built at T+D with
\* last position P and last report time T carries P+D, and stores it, if the
\* session is not paused; it carries P, and leaves it, if the session is
\* paused or there is no last report time; when the host supplies a position,
\* that one is carried and stored.
C9_PositionResolution ==
    [][\A t \in Threads :
          Builds(t) =>
            LET P == player.lastPlaybackPosition
                T == player.lastProgressReport
                got == loc'[t].gotTime
                stored == player'.lastPlaybackPosition
            IN  /\ stored # Unset
                     => loc'[t].data[1].PositionTicks = stored * 10 * 1000 * 1000
                /\ got # Unset => stored = got
                /\ got = Unset /\ P # Unset /\ ~player'.paused /\ T # Unset
                     => stored = P + (now - T)
                /\ got = Unset /\ P # Unset /\ (player'.paused \/ T = Unset)
                     => stored = P]_vars

\* a paused session whose position the host could not supply, some time after
\* the last report
C9_Witness ==
    \E t \in Threads :
        /\ pc[t] \in {"report_call", "stop_call"}
        /\ loc[t].gotTime = Unset
        /\ player.paused
        /\ player.lastPlaybackPosition # Unset
        /\ IsSet(player.lastProgressReport)
        /\ now > player.lastProgressReport

\* C10: between two methods (the lock is free) item is set exactly when
\* itemId is set, and the server connection is set exactly when both are.
C10_SessionMarkersAgree ==
    lock = None =>
        /\ player.item # None <=> player.itemId # None
        /\ player.server # None <=> (player.item # None /\ player.itemId # None)

C10_Witness ==
    /\ lock = None
    /\ player.item # None
    /\ player.server # None
    /\ player.playSessionId = None

\* C11: every PlaybackProgress or StopPlayback call is made for a session
\* whose StartPlayback call returned, with no reset since: no progress or stop
\* report goes out for a session that never completed its start.
C11_ReportsFollowCompletedStart ==
    \A t \in Threads :
        pc[t] # "idle" =>
            \A i \in 1..Len(loc[t].calls) :
                loc[t].calls[i].op \in {"PlaybackProgress", "StopPlayback"} =>
                    /\ started.PlaySessionId # None
                    /\ loc[t].calls[i].data[1].PlaySessionId = started.PlaySessionId

\* a step that generates a session token
GeneratesToken(t) == pc[t] = "start_build" /\ pc'[t] # "start_build"

\* a step that sends a progress or a stop report
SendsReport(t) ==
    /\ pc[t] \in {"report_call", "stop_call"}
    /\ pc'[t] # pc[t]

\* C12: a session gets its token once: a token is generated, and then
\* StartPlayback sent, only for a session that has none yet (also when
\* onAVStarted comes again with no onPlayBackStarted in between), and every
\* progress and stop report of a session whose start was reported carries
\* the PlaySessionId and ItemId of that start report.
C12_OneTokenPerSession ==
    [][\A t \in Threads :
          /\ GeneratesToken(t) => player.playSessionId = None
          /\ SendsReport(t) /\ started.PlaySessionId # None =>
                LET c == loc'[t].calls[Len(loc'[t].calls)]
                IN  /\ c.data[1].PlaySessionId = started.PlaySessionId
                    /\ c.data[1].ItemId = started.ItemId]_vars

\* the session fields of the Player, the captured file among them
SessionFields(p) ==
    <<p.file, p.item, p.itemId, p.mediaProvider, p.server, p.playSessionId,
      p.paused, p.playMethod, p.lastPlaybackPosition>>

\* Process() read the clock less than progressInterval after the last report
InsideInterval(t) ==
    /\ pc[t] # "process"
    /\ IsSet(loc[t].entry.lastProgressReport)
    /\ loc[t].tickNow - loc[t].entry.lastProgressReport < player.progressInterval

\* C13: a Process() call that finds no session active, or that comes before
\* the interval has elapsed, is a no-op: it makes no call and none of its
\* steps changes a session field, the captured file included.
C13_ProcessIsNoOp ==
    [][\A t \in Threads :
          /\ pc[t] # "idle"
          /\ loc[t].handler = "Process"
          /\ ~ActiveAtEntry(t) \/ InsideInterval(t)
          => /\ loc[t].calls = <<>>
             /\ SessionFields(player') = SessionFields(player)]_vars

\* C14: a handler makes at most one call of the report client (StartPlayback,
\* PlaybackProgress or StopPlayback) from its entry to its return.
C14_OneReportCallPerHandler ==
    \A t \in Threads :
        pc[t] # "idle" => Len(CallsOf(t, ReportOps)) <= 1

\* a start that asked the catalog for subtitles and sent its one report
C14_Witness ==
    /\ AtExit("host", {"onAVStarted"})
    /\ Len(loc["host"].calls) = 3
    /\ Len(CallsOf("host", {"StartPlayback"})) = 1
    /\ loc["host"].raised = ""

\* a start has read every answer of the validation, and every check passed
ValidationsPassed(t) ==
    /\ loc[t].handler = "onAVStarted"
    /\ pc[t] # "start_validate"
    /\ loc[t].seen.auth = "yes"
    /\ ~CheckFailed(t)

\* C15: a start whose validations pass asks the catalog for the subtitles
\* exactly when the play method is DirectStream and the external-subtitles
\* setting is on, and whatever happens in there (no details, no media source,
\* no URL, the catalog call raising) the session token is generated and one
\* StartPlayback with the chosen PlayMethod is sent.
C15_SubtitlesNeverStopTheStart ==
    \A t \in Threads :
        pc[t] = "exit" /\ ValidationsPassed(t) =>
            /\ CallsOf(t, {"GetItem"}) # <<>>
                 <=> /\ player.playMethod = PLAYING_PLAY_METHOD_DIRECT_STREAM
                     /\ loc[t].seen.settings = "subsOn"
            /\ loc[t].subtitles # "" =>
                 /\ Len(CallsOf(t, {"GenerateSessionId"})) = 1
                 /\ Len(CallsOf(t, {"StartPlayback"})) = 1
                 /\ CallsOf(t, {"StartPlayback"})[1].data[1].PlayMethod = player.playMethod

\* the last call of a method was a call of the report client, and it raised
ReportCallRaised(t) ==
    /\ pc[t] = "exit"
    /\ loc[t].raised = "Error"
    /\ loc[t].calls[Len(loc[t].calls)].op \in ReportOps

\* a step in which a call of the report client raises
ReportCallRaises(t) ==
    /\ pc[t] \in {"start_call", "report_call", "stop_call"}
    /\ pc'[t] = "exit"

\* C16: when a call of the report client raises, the method ends there with
\* the Player as it was before the call, and the lock is released: the lock
\* is never held by a thread that runs no method, and after the raise the
\* lock gets free, so that the next event or Process() call can take it.
C16_RaiseReleasesTheLock ==
    /\ [](lock # None => pc[lock] # "idle")
    /\ [][\A t \in Threads : ReportCallRaises(t) =>
              /\ player' = player
              /\ loc'[t].raised = "Error"]_vars
    /\ (\E t \in Threads : ReportCallRaised(t)) ~> (lock = None)

\* a StopPlayback call has raised: the session is still there
C16_Witness ==
    /\ ReportCallRaised("host")
    /\ loc["host"].handler \in StopEvents
    /\ player.item # None
    /\ lock = "host"

\* C17: onPlayBackStarted makes no call, whatever state it finds: it resets
\* the session (a session that was active is gone, with no StopPlayback) and
\* then file is the host's playing file, or empty when the host has none to
\* give; an onAVStarted that finds no file captured starts no session.
C17_PlayBackStartedOnlyCapturesFile ==
    \A t \in Threads :
        /\ pc[t] # "idle" /\ loc[t].handler = "onPlayBackStarted" =>
              /\ loc[t].calls = <<>>
              /\ loc[t].raised = ""
              /\ pc[t] = "started_file" => SessionCleared
              /\ pc[t] = "exit" =>
                   /\ player.file = loc[t].gotFile
                   /\ SessionFields([player EXCEPT !.file = None])
                        = SessionFields(reset(player))
        /\ /\ pc[t] \notin {"idle", "start_validate"}
           /\ loc[t].handler = "onAVStarted"
           /\ loc[t].entry.file = None
           => pc[t] = "exit" /\ loc[t].calls = <<>> /\ SessionCleared

\* onPlayBackStarted found a session active and could not read the file
C17_Witness ==
    /\ AtExit("host", {"onPlayBackStarted"})
    /\ ActiveAtEntry("host")
    /\ loc["host"].gotFile = None
    /\ player.file = None
    /\ player.item = None

\* C18: a progress attempt (a due Process(), a seek, seek-chapter, pause or
\* resume event) that finds the host not playing resets the session and makes
\* no call, neither PlaybackProgress nor StopPlayback; a stop, ended or error
\* event that comes after it, and so finds no session, makes no call either.
C18_StopDetectedDuringProgress ==
    \A t \in Threads :
        pc[t] # "idle" =>
            /\ loc[t].isPlaying = "no" =>
                 /\ pc[t] = "exit"
                 /\ loc[t].calls = <<>>
                 /\ SessionCleared
            /\ loc[t].handler \in StopEvents /\ loc[t].entry.item = None =>
                 /\ loc[t].calls = <<>>
                 /\ pc[t] \in {"stop_build", "exit"}

\* a due Process() finds a session active and the host not playing
C18_Witness ==
    /\ AtExit("ticker", {"Process"})
    /\ ActiveAtEntry("ticker")
    /\ loc["ticker"].isPlaying = "no"
    /\ player.item = None

\* a step that follows a StartPlayback or PlaybackProgress call that returned
AfterReturnedReport(t) ==
    /\ pc[t] \in {"start_stamp", "report_stamp"}
    /\ pc'[t] = "exit"
    /\ loc[t].raised = ""
    /\ loc[t].calls[Len(loc[t].calls)].op \in {"StartPlayback", "PlaybackProgress"}

\* C19: the time of the last report changes only in the step that follows a
\* StartPlayback or PlaybackProgress call that returned, and then it becomes
\* the current time; no other step (a call that raises, a stop report, a
\* failed validation, a reset, a Process() that does nothing) changes it, and
\* it never decreases.
C19_TimestampOnlyAfterReport ==
    [][player'.lastProgressReport # player.lastProgressReport =>
          /\ \E t \in Threads : AfterReturnedReport(t)
          /\ player'.lastProgressReport = now
          /\ player'.lastProgressReport >= player.lastProgressReport]_vars

\* a PlaybackProgress call raised some time after the last report: the time
\* of the last report is the one the method found
C19_Witness ==
    \E t \in Threads :
        /\ pc[t] = "exit"
        /\ loc[t].raised = "Error"
        /\ loc[t].calls[Len(loc[t].calls)].op = "PlaybackProgress"
        /\ IsSet(player.lastProgressReport)
        /\ player.lastProgressReport = loc[t].entry.lastProgressReport
        /\ now > player.lastProgressReport

\* a session is active
Active == player.item # None /\ player.itemId # None

\* a PlaybackProgress call has returned
ProgressReported == \E t \in Threads : pc[t] = "report_stamp"

\* the next report is due after the last instant the clock reaches
ClockEnds ==
    /\ IsSet(player.lastProgressReport)
    /\ player.lastProgressReport + player.progressInterval > MaxTime

\* C20: while the host keeps playing, the report client does not fail, the
\* clock advances and the ticker keeps calling Process(), a session that is
\* active gets a PlaybackProgress call sooner or later, unless it ends first
\* (or the clock stops before the report is due).
C20_ProgressIsEventuallyReported ==
    (Active /\ lock = None) ~> (~Active \/ ProgressReported \/ ClockEnds)
====
